---- MODULE Spec2Model ----
(***************************************************************************)
(* Model of job-screener (main.py): the seen-set store, the three source   *)
(* adapters, the scorer, the Slack notifier, the runner main() and the     *)
(* scheduler loop that calls it.                                           *)
(*                                                                         *)
(* Texts are sequences of one-character strings, so that extract_score is  *)
(* computed by matching the regular expression character by character.     *)
(***************************************************************************)
EXTENDS Integers, Sequences, FiniteSets, TLC

VARIABLES
    cache_file,   \* seen_jobs.json: [st |-> "absent"|"ok"|"corrupt"|"unreadable", content |-> set of urls]
    pc,           \* where the process is: "idle" (scheduler loop), "loop" (inside main), "crashed"
    raised,       \* the function whose exception escaped main(), or "none"
    passNo,       \* number of passes of main() started so far
    seen_jobs,    \* main's local seen_jobs
    new_seen,     \* main's local new_seen
    jobs,         \* the list gather_jobs() returned to the current (or last) pass
    idx,          \* position of main's for loop in jobs (next listing to process)
    trace,        \* per position of jobs: calls made for that listing in the current pass
    prevScores,   \* per position: the score the previous pass gave, when it gathered the same list
    repeat,       \* TRUE when the current pass gathered the same list as the pass before it
    notifyCount,  \* url -> number of send_to_slack calls made for it over all passes
    lostUrls,     \* urls whose send_to_slack call failed in an earlier pass
    text,         \* scorer harness: the response text handed to score_job
    result        \* scorer harness: the score score_job returned for text, or NotScored

vars == << cache_file, pc, raised, passNo, seen_jobs, new_seen, jobs, idx, trace,
           prevScores, repeat, notifyCount, lostUrls, text, result >>

-----------------------------------------------------------------------------
(* Bounds and program constants *)

MaxPasses == 2

Threshold == 7

NotScored == 0 - 1

-----------------------------------------------------------------------------
(* Characters and the regular expression of extract_score *)

Digits == <<"0", "1", "2", "3", "4", "5", "6", "7", "8", "9">>

IsDigit(c) == \E d \in 1..10 : Digits[d] = c

DigitVal(c) == (CHOOSE d \in 1..10 : Digits[d] = c) - 1

Range(s) == {s[k] : k \in 1..Len(s)}

IsSpace(c) == c \in {" ", "\n", "\t", "\r"}

ScoreLit == <<"S", "c", "o", "r", "e", ":">>

SlashTen == <<"/", "1", "0">>

\* t has the literal lit at position p
HasAt(t, lit, p) ==
    /\ p + Len(lit) - 1 <= Len(t)
    /\ \A k \in 1..Len(lit) : t[p + k - 1] = lit[k]

\* first position >= p of t that holds no whitespace (\s* is greedy)
RECURSIVE SkipSpaces(_, _)
SkipSpaces(t, p) ==
    IF p <= Len(t) /\ IsSpace(t[p]) THEN SkipSpaces(t, p + 1) ELSE p

\* first position >= p of t that holds no digit (\d+ is greedy)
RECURSIVE SkipDigits(_, _)
SkipDigits(t, p) ==
    IF p <= Len(t) /\ IsDigit(t[p]) THEN SkipDigits(t, p + 1) ELSE p

\* int() of the digits t[from..to]
RECURSIVE ToInt(_, _, _)
ToInt(t, from, to) ==
    IF to < from THEN 0
    ELSE 10 * ToInt(t, from, to - 1) + DigitVal(t[to])

\* r"Score:\s*(\d+)/10" matches t starting at position p
MatchAt(t, p) ==
    /\ HasAt(t, ScoreLit, p)
    /\ LET q == SkipSpaces(t, p + Len(ScoreLit))
           r == SkipDigits(t, q)
       IN  r > q /\ HasAt(t, SlashTen, r)

\* group(1) of the match at p, as int
GroupAt(t, p) ==
    LET q == SkipSpaces(t, p + Len(ScoreLit))
        r == SkipDigits(t, q)
    IN  ToInt(t, q, r - 1)

extract_score(t) ==
    LET hits == {p \in 1..Len(t) : MatchAt(t, p)}
    IN  IF hits = {} THEN 0
        ELSE GroupAt(t, CHOOSE p \in hits : \A o \in hits : p <= o)

-----------------------------------------------------------------------------
(* Seen-set store *)

\* The outcome of load_seen_jobs on file f: the set returned, or an exception.
\* os.path.exists guards only the missing file; open() and json.load() are
\* not inside any try.
load_seen_jobs(f) ==
    IF f.st = "absent" THEN [raises |-> FALSE, value |-> {}]
    ELSE IF f.st = "ok" THEN [raises |-> FALSE, value |-> f.content]
    ELSE [raises |-> TRUE, value |-> {}]

\* The file after save_seen_jobs(seen) when open(CACHE_FILE, "w") succeeds.
save_seen_jobs(seen) == [st |-> "ok", content |-> seen]

-----------------------------------------------------------------------------
(* Source adapters.  A remote answer is [ok, body]: ok = FALSE is a request *)
(* or decoding failure, which every adapter catches and turns into [].      *)

RemoteOKPrefix == "https://remoteok.com"

YCPrefix == "https://www.ycombinator.com"

\* "data" in title.lower(), tabulated over the titles the remotes serve
ContainsData(title) ==
    title \in {"Data Engineer", "Data Scientist", "Data Science Intern",
               "Senior Data Scientist", "Staff Data Scientist"}

\* "intern" in title.lower(), tabulated likewise
ContainsIntern(title) == title \in {"Data Science Intern"}

Listing(title, url) == [title |-> title, url |-> url]

RECURSIVE KeepIf(_, _)
KeepIf(s, keep) ==
    IF s = <<>> THEN <<>>
    ELSE IF Head(s) \in keep THEN <<Head(s)>> \o KeepIf(Tail(s), keep)
    ELSE KeepIf(Tail(s), keep)

fetch_remoteok_jobs(resp) ==
    IF ~resp.ok THEN <<>>
    ELSE LET rows == SubSeq(resp.body, 2, Len(resp.body))
             kept == KeepIf(rows, {j \in Range(rows) : ContainsData(j.position)})
         IN  [k \in 1..Len(kept) |->
                 Listing(kept[k].position, RemoteOKPrefix \o kept[k].url)]

fetch_ycombinator_jobs(resp) ==
    IF ~resp.ok THEN <<>>
    ELSE LET kept == KeepIf(resp.body,
                        {c \in Range(resp.body) :
                            ContainsData(c.h2) /\ ~ContainsIntern(c.h2)})
         IN  [k \in 1..Len(kept) |-> Listing(kept[k].h2, YCPrefix \o kept[k].href)]

\* job.get("related_links", [{}])[0].get("link", ""): no related_links key
\* gives "", an empty related_links list raises IndexError (caught: []).
GoogleUrl(job) ==
    IF ~job.has_links THEN "" ELSE job.related_links[1]

fetch_google_jobs(resp) ==
    IF ~resp.ok THEN <<>>
    ELSE IF \E k \in 1..Len(resp.body) :
                resp.body[k].has_links /\ resp.body[k].related_links = <<>>
         THEN <<>>
    ELSE [k \in 1..Len(resp.body) |->
             Listing(resp.body[k].title, GoogleUrl(resp.body[k]))]

gather_jobs(rok, yc, goog) ==
    fetch_remoteok_jobs(rok) \o fetch_ycombinator_jobs(yc) \o fetch_google_jobs(goog)

-----------------------------------------------------------------------------
(* Scorer and notifier *)

\* resp is the outcome of openai.ChatCompletion.create: ok = FALSE is any
\* exception of the call, caught by score_job and turned into score 0.
score_job(resp) ==
    IF resp.ok THEN extract_score(resp.content) ELSE 0

\* send_to_slack without its try/except: a failed POST raises
send_to_slack_uncaught(posted) == IF posted THEN "returned" ELSE "raised"

\* What send_to_slack does with the outcome of the POST (posted = FALSE is a
\* request failure or an error status): the exception is caught and logged.
send_to_slack(posted) == "returned"

-----------------------------------------------------------------------------
(* The decisions of main() *)

\* new_seen = set(): the loaded urls are not carried over
CopySeen_empty(seen) == {}

\* line 140: new_seen = set(seen_jobs)
CopySeen(seen) == seen

\* job["title"] in seen_jobs: the wrong key is looked up
IsDuplicate_by_title(job, seen) == job.title \in seen

\* line 142: job["url"] in seen_jobs
IsDuplicate(job, seen) == job.url \in seen

\* line 149: score >= 7
Qualifies(score) == score >= Threshold

\* the add is missing
MarkSeen_dropped(ns, job) == ns

\* line 152: new_seen.add(job["url"])
MarkSeen(ns, job) == ns \cup {job.url}

-----------------------------------------------------------------------------
(* Inputs *)

Legal == [position |-> "", url |-> ""]

RokData == [position |-> "Data Engineer", url |-> "/remote-jobs/101"]

RokOther == [position |-> "Backend Developer", url |-> "/remote-jobs/102"]

RemoteOKResponses ==
    { [ok |-> FALSE, body |-> <<>>],
      [ok |-> TRUE, body |-> <<Legal>>],
      [ok |-> TRUE, body |-> <<Legal, RokOther>>],
      [ok |-> TRUE, body |-> <<Legal, RokData>>] }

YcData == [h2 |-> "Data Scientist", href |-> "/companies/acme/jobs/1"]

YcIntern == [h2 |-> "Data Science Intern", href |-> "/companies/acme/jobs/2"]

YCPages ==
    { [ok |-> FALSE, body |-> <<>>],
      [ok |-> TRUE, body |-> <<YcIntern>>],
      [ok |-> TRUE, body |-> <<YcIntern, YcData>>] }

\* two results without related_links, one linking to the RemoteOK posting,
\* one with an empty related_links list
GoogNoLinkA == [title |-> "Senior Data Scientist", has_links |-> FALSE, related_links |-> <<>>]

GoogNoLinkB == [title |-> "Staff Data Scientist", has_links |-> FALSE, related_links |-> <<>>]

GoogLinked ==
    [title |-> "Data Engineer", has_links |-> TRUE,
     related_links |-> <<RemoteOKPrefix \o "/remote-jobs/101">>]

GoogEmptyLinks == [title |-> "Data Scientist", has_links |-> TRUE, related_links |-> <<>>]

GoogleResponses ==
    { [ok |-> FALSE, body |-> <<>>],
      [ok |-> TRUE, body |-> <<>>],
      [ok |-> TRUE, body |-> <<GoogNoLinkA, GoogNoLinkB>>],
      [ok |-> TRUE, body |-> <<GoogLinked>>],
      [ok |-> TRUE, body |-> <<GoogLinked, GoogEmptyLinks>>] }

Urls ==
    UNION { Range([k \in 1..Len(gather_jobs(a, b, c)) |-> gather_jobs(a, b, c)[k].url]) :
            a \in RemoteOKResponses, b \in YCPages, c \in GoogleResponses }

\* what the completion call can give back to score_job in a pass
ModelResponses ==
    { [ok |-> FALSE, content |-> <<>>],
      [ok |-> TRUE, content |-> <<"N", "/", "A">>],
      [ok |-> TRUE, content |-> ScoreLit \o <<" ", "3">> \o SlashTen],
      [ok |-> TRUE, content |-> ScoreLit \o <<" ", "8">> \o SlashTen \o <<"\n", "R", "e", "a", "s", "o", "n", ":">>] }

\* response texts for the scorer on its own
Prefixes ==
    { <<>>, <<"R", "o", "l", "e", "\n">>, ScoreLit \o <<" ", "h", "i", "g", "h", "\n">> }

Spaces == { <<>>, <<" ">>, <<" ", "\n">> }

DigitRuns ==
    { <<>>, <<"0">>, <<"7">>, <<"0", "7">>, <<"1", "0">>, <<"1", "1">>, <<"1", "0", "0">> }

Suffixes ==
    { <<>>, <<"/", "1">>, SlashTen, SlashTen \o <<"0">>,
      SlashTen \o <<"\n">> \o ScoreLit \o <<" ", "9">> \o SlashTen }

Texts ==
    { pre \o ScoreLit \o ws \o ds \o suf :
        pre \in Prefixes, ws \in Spaces, ds \in DigitRuns, suf \in Suffixes }
    \cup { <<>>, <<"s", "c", "o", "r", "e", ":", " ", "8">> \o SlashTen }

InitialFiles ==
    { [st |-> "absent", content |-> {}],
      [st |-> "corrupt", content |-> {}],
      [st |-> "unreadable", content |-> {}],
      [st |-> "ok", content |-> {}] }
    \cup { [st |-> "ok", content |-> {u}] : u \in Urls }

-----------------------------------------------------------------------------
(* State machine *)

Fresh == [scoreCalls |-> 0, score |-> NotScored, slackCalls |-> 0, slackFailed |-> FALSE]

Init ==
    /\ cache_file \in InitialFiles
    /\ pc = "idle"
    /\ raised = "none"
    /\ passNo = 0
    /\ seen_jobs = {}
    /\ new_seen = {}
    /\ jobs = <<>>
    /\ idx = 1
    /\ trace = <<>>
    /\ prevScores = <<>>
    /\ repeat = FALSE
    /\ notifyCount = [u \in Urls |-> 0]
    /\ lostUrls = {}
    /\ text = <<>>
    /\ result = NotScored

\* schedule.run_pending() calls main(); load_seen_jobs raises and nothing
\* between it and the scheduler loop catches the exception.
LoadFails ==
    /\ pc = "idle"
    /\ passNo < MaxPasses
    /\ load_seen_jobs(cache_file).raises
    /\ pc' = "crashed"
    /\ raised' = "load_seen_jobs"
    /\ passNo' = passNo + 1
    /\ UNCHANGED << cache_file, seen_jobs, new_seen, jobs, idx, trace, prevScores,
                    repeat, notifyCount, lostUrls, text, result >>

\* main() lines 139-141: load the seen set, copy it, gather the listings.
StartPass ==
    /\ pc = "idle"
    /\ passNo < MaxPasses
    /\ ~load_seen_jobs(cache_file).raises
    /\ \E rok \in RemoteOKResponses, yc \in YCPages, goog \in GoogleResponses :
          LET gathered == gather_jobs(rok, yc, goog)
              same == passNo >= 1 /\ gathered = jobs
          IN  /\ jobs' = gathered
              /\ repeat' = same
              /\ prevScores' = IF same THEN [k \in 1..Len(jobs) |-> trace[k].score]
                               ELSE <<>>
              /\ trace' = [k \in 1..Len(gathered) |-> Fresh]
    /\ seen_jobs' = load_seen_jobs(cache_file).value
    /\ new_seen' = CopySeen(load_seen_jobs(cache_file).value)
    /\ lostUrls' = lostUrls \cup {jobs[k].url : k \in {n \in 1..Len(jobs) : trace[n].slackFailed}}
    /\ idx' = 1
    /\ passNo' = passNo + 1
    /\ pc' = "loop"
    /\ UNCHANGED << cache_file, raised, notifyCount, text, result >>

\* lines 142-144: the listing's url is in seen_jobs
SkipDuplicate ==
    /\ pc = "loop"
    /\ idx <= Len(jobs)
    /\ IsDuplicate(jobs[idx], seen_jobs)
    /\ idx' = idx + 1
    /\ UNCHANGED << cache_file, pc, raised, passNo, seen_jobs, new_seen, jobs, trace,
                    prevScores, repeat, notifyCount, lostUrls, text, result >>

\* lines 146-147, 153-156: scored below the threshold
ScoreLow ==
    /\ pc = "loop"
    /\ idx <= Len(jobs)
    /\ ~IsDuplicate(jobs[idx], seen_jobs)
    /\ \E resp \in ModelResponses :
          /\ ~Qualifies(score_job(resp))
          /\ trace' = [trace EXCEPT ![idx] =
                          [@ EXCEPT !.scoreCalls = @ + 1, !.score = score_job(resp)]]
    /\ idx' = idx + 1
    /\ UNCHANGED << cache_file, pc, raised, passNo, seen_jobs, new_seen, jobs,
                    prevScores, repeat, notifyCount, lostUrls, text, result >>

\* lines 146-152, 156: scored at or above the threshold, posted to Slack
ScoreAndNotify ==
    /\ pc = "loop"
    /\ idx <= Len(jobs)
    /\ ~IsDuplicate(jobs[idx], seen_jobs)
    /\ \E resp \in ModelResponses, posted \in BOOLEAN :
          /\ Qualifies(score_job(resp))
          /\ trace' = [trace EXCEPT ![idx] =
                          [scoreCalls |-> @.scoreCalls + 1, score |-> score_job(resp),
                           slackCalls |-> @.slackCalls + 1, slackFailed |-> ~posted]]
          /\ IF send_to_slack(posted) = "returned"
             THEN /\ new_seen' = MarkSeen(new_seen, jobs[idx])
                  /\ idx' = idx + 1
                  /\ UNCHANGED << pc, raised >>
             ELSE /\ pc' = "crashed"
                  /\ raised' = "send_to_slack"
                  /\ UNCHANGED << new_seen, idx >>
    /\ notifyCount' = [notifyCount EXCEPT ![jobs[idx].url] = @ + 1]
    /\ UNCHANGED << cache_file, passNo, seen_jobs, jobs, prevScores, repeat,
                    lostUrls, text, result >>

\* line 158: save_seen_jobs(new_seen) writes the file; main returns
SaveSeen ==
    /\ pc = "loop"
    /\ idx > Len(jobs)
    /\ cache_file' = save_seen_jobs(new_seen)
    /\ pc' = "idle"
    /\ UNCHANGED << raised, passNo, seen_jobs, new_seen, jobs, idx, trace, prevScores,
                    repeat, notifyCount, lostUrls, text, result >>

\* line 158: open(CACHE_FILE, "w") raises (file not writable); no try around it
SaveFails ==
    /\ pc = "loop"
    /\ idx > Len(jobs)
    /\ pc' = "crashed"
    /\ raised' = "save_seen_jobs"
    /\ UNCHANGED << cache_file, passNo, seen_jobs, new_seen, jobs, idx, trace,
                    prevScores, repeat, notifyCount, lostUrls, text, result >>

Next ==
    \/ LoadFails
    \/ StartPass
    \/ SkipDuplicate
    \/ ScoreLow
    \/ ScoreAndNotify
    \/ SaveSeen
    \/ SaveFails

Spec == Init /\ [][Next]_vars

-----------------------------------------------------------------------------
(* The scorer on its own: score_job applied to every response text *)

InitScore ==
    /\ cache_file = [st |-> "absent", content |-> {}]
    /\ pc = "idle"
    /\ raised = "none"
    /\ passNo = 0
    /\ seen_jobs = {}
    /\ new_seen = {}
    /\ jobs = <<>>
    /\ idx = 1
    /\ trace = <<>>
    /\ prevScores = <<>>
    /\ repeat = FALSE
    /\ notifyCount = [u \in Urls |-> 0]
    /\ lostUrls = {}
    /\ text \in Texts
    /\ result = NotScored

ScoreText ==
    /\ result = NotScored
    /\ \E ok \in BOOLEAN : result' = score_job([ok |-> ok, content |-> text])
    /\ UNCHANGED << cache_file, pc, raised, passNo, seen_jobs, new_seen, jobs, idx,
                    trace, prevScores, repeat, notifyCount, lostUrls, text >>

NextText ==
    /\ result # NotScored
    /\ text' \in Texts
    /\ result' = NotScored
    /\ UNCHANGED << cache_file, pc, raised, passNo, seen_jobs, new_seen, jobs, idx,
                    trace, prevScores, repeat, notifyCount, lostUrls >>

NextScore == ScoreText \/ NextText

SpecScore == InitScore /\ [][NextScore]_vars

-----------------------------------------------------------------------------
(* Properties *)

Positions == 1..Len(jobs)

\* the seen set the file holds, as load_seen_jobs would read it from a good file
Persisted == IF cache_file.st = "ok" THEN cache_file.content ELSE {}

\* C1: in a pass, a gathered listing whose url is in the seen set loaded at
\* the start of the pass is neither scored nor posted to Slack.
C1_SeenNeverScoredNorNotified ==
    \A k \in Positions :
        jobs[k].url \in seen_jobs =>
            trace[k].scoreCalls = 0 /\ trace[k].slackCalls = 0

\* a listing with a loaded url was gathered and passed over, and another
\* listing of the same pass was scored
C1_Witness ==
    /\ \E k \in Positions : k < idx /\ jobs[k].url \in seen_jobs
    /\ \E k \in Positions : trace[k].scoreCalls > 0

\* C2: a listing scored >= 7 is posted to Slack exactly once in the pass, its
\* url is in the set main hands to save_seen_jobs, and in the file once
\* save_seen_jobs has written it.
C2_QualifyingNotifiedOnceAndPersisted ==
    \A k \in Positions :
        (trace[k].scoreCalls > 0 /\ trace[k].score >= Threshold) =>
            /\ trace[k].scoreCalls = 1
            /\ trace[k].slackCalls = 1
            /\ (pc = "loop" /\ idx > Len(jobs)) => jobs[k].url \in new_seen
            /\ pc = "idle" => (cache_file.st = "ok" /\ jobs[k].url \in cache_file.content)

\* a pass that started from an empty seen set has ended with a listing scored 8
\* and its url saved
C2_Witness ==
    /\ pc = "idle"
    /\ seen_jobs = {}
    /\ \E k \in Positions :
          /\ trace[k].score = 8
          /\ cache_file.content = {jobs[k].url}

\* C3: a listing scored < 7 is not posted to Slack and its url is absent from
\* the seen set saved at the end of the pass, whatever the adapters returned.
C3_LowScoreNeverPersisted ==
    \A k \in Positions :
        (trace[k].scoreCalls > 0 /\ trace[k].score < Threshold) =>
            /\ trace[k].slackCalls = 0
            /\ pc = "idle" => jobs[k].url \notin Persisted

\* C4 as stated: a pass that gathers the same listings as the pass before it
\* posts nothing to Slack.
C4_SecondRunSilent ==
    repeat => \A k \in Positions : trace[k].slackCalls = 0

ScoresRepeat ==
    \A k \in Positions :
        (prevScores[k] # NotScored /\ trace[k].score # NotScored) =>
            trace[k].score = prevScores[k]

\* C4 amended: a pass that gathers the same listings as the completed pass
\* before it, and scores every listing both passes score the same, posts
\* nothing to Slack.
C4_SecondRunSilentIfScoresRepeat ==
    (repeat /\ ScoresRepeat) => \A k \in Positions : trace[k].slackCalls = 0

\* a repeated pass has ended; the first pass had posted a listing, and the
\* repeated pass scored a listing again with the same score
C4_Witness ==
    /\ repeat
    /\ ScoresRepeat
    /\ pc = "idle"
    /\ \E k \in Positions : prevScores[k] >= Threshold
    /\ \E k \in Positions : trace[k].scoreCalls > 0 /\ prevScores[k] # NotScored

\* C5: load_seen_jobs never raises; it returns the empty set for an absent,
\* unreadable or malformed file and the stored set otherwise.
C5_LoadNeverRaises ==
    /\ raised # "load_seen_jobs"
    /\ pc = "loop" => seen_jobs = Persisted

\* C6: every step leaves in the file a superset of the seen set it held.
C6_SeenSetGrows == [][Persisted \subseteq Persisted']_vars

\* a pass that loaded a non-empty seen set has saved it with a url added
C6_Witness ==
    /\ pc = "idle"
    /\ seen_jobs # {}
    /\ new_seen # seen_jobs
    /\ cache_file.content = new_seen

\* C7: no exception escapes main(), so the scheduler loop keeps running.
C7_NoExceptionEscapesMain == pc # "crashed"

\* C8: a failed post does not escape send_to_slack, is not repeated for the
\* listing in the pass, the listing's url is still in the set handed to
\* save_seen_jobs and in the file once written, and no later pass posts a
\* listing with that url.
C8_FailedPostStillMarksSeen ==
    /\ raised # "send_to_slack"
    /\ \A k \in Positions :
          trace[k].slackFailed =>
              /\ trace[k].slackCalls = 1
              /\ jobs[k].url \in new_seen
              /\ pc = "idle" => jobs[k].url \in Persisted
    /\ \A k \in Positions : trace[k].slackCalls > 0 => jobs[k].url \notin lostUrls

\* a later pass gathered a listing whose post had failed in an earlier pass,
\* and passed over it
C8_Witness ==
    \E k \in Positions :
        /\ k < idx
        /\ jobs[k].url \in lostUrls
        /\ trace[k].slackCalls = 0

\* C9: the score score_job returns is an integer in 0..10 for every response.
C9_ScoreInRange == result = NotScored \/ result \in 0..10

\* C10: over all passes, send_to_slack is called at most once per url, also
\* when the url occurs more than once among the listings of one pass.
C10_AtMostOncePerUrl == \A u \in Urls : notifyCount[u] <= 1

====
